---- MODULE Spec2Model ----
(***************************************************************************)
(* Smart Echo: the retry wrapper (withRetry) and its call sites, the PCM   *)
(* codec (createPcmBlob / encode / decode / decodeAudioData), the live     *)
(* mentor session (startLiveMentor / stopLiveMentor) and the single-shot   *)
(* speech of the chat (handlePlayVoice / stopAudio).                       *)
(*                                                                         *)
(* The specifications of the module:                                       *)
(*   SpecRetry       withRetry calls and the handlers that present a       *)
(*                   failure                                               *)
(*   SpecPcm         the codec applied to bounded sample sequences         *)
(*   SpecDecode      decodeAudioData applied to bounded byte sequences     *)
(*   SpecLive        successive live mentor sessions and their callbacks   *)
(*   SpecSession     one live mentor session, with the output clock        *)
(*   SpecTranscript  one live mentor session receiving transcriptions      *)
(*   SpecPlayback    the playback of one live mentor session               *)
(*   SpecMic         starting the live mentor: microphone and connect      *)
(*   SpecVoice       the Listen / Stop buttons of the chat messages        *)
(***************************************************************************)
EXTENDS Integers, Sequences, FiniteSets, TLC

VARIABLES
    \* ---- withRetry calls (services/geminiService.ts) and call sites ----
    rpc,          \* position of each call: idle, attempt, backoff, returned, raised, shown
    kind,         \* which caller made the call: plain, analyze, speech, chat
    maxRetries,   \* the maxRetries argument of each call
    ri,           \* the loop counter i of each call
    lastError,    \* the local lastError of each call
    timer,        \* ms left on the setTimeout of each call (0: none pending)
    outcome,      \* what the finished call returned or threw
    shown,        \* the message the call site presented: none, ok, quota, generic
    \* history of each call, kept for the properties
    invoked,      \* number of invocations of fn
    inflight,     \* number of invocations of fn that have not settled
    delays,       \* the arguments of the setTimeout calls, in order
    elapsed,      \* ms the call has spent waiting on its timers
    lastThrown,   \* what the most recent invocation of fn threw or returned
    firstQuota,   \* "none" before the first failure, then whether it was quota-classified
    everyQuota,   \* every invocation so far failed with a quota-classified error
    \* ---- PCM codec ----
    ppc,          \* stage of the codec pipeline
    samples,      \* the Float32Array handed to createPcmBlob, as numerators over SampleDen
    blob,         \* the base64 text createPcmBlob returns (sextets, Pad for '=')
    bytes,        \* the Uint8Array decode() returns
    decoded,      \* channel 0 of the AudioBuffer, as numerators over 32768
    channels,     \* the numChannels argument of a call of decodeAudioData
    audioBuffer,  \* what that call settled with: the channels of the buffer, or an error
    \* ---- live mentor session (App.tsx) ----
    lpc,            \* position of each startLiveMentor invocation
    stream,         \* the MediaStream each invocation acquired: none, live, stopped
    channel,        \* the remote channel each invocation opened:
                    \*   none, connecting, open, closing, closed, failed
    liveSessionRef, \* liveSessionRef.current: the invocation whose session it holds, 0 for null
    liveStreamRef,  \* liveStreamRef.current: the invocation whose stream it holds, 0 for null
    isLiveMode,     \* React state isLiveMode
    showMicHelp,    \* React state showMicHelp
    liveError,      \* audioState.error as set by the live mentor code
    capture,        \* onopen of the invocation has installed its onaudioprocess callback
    decoding,       \* the onmessage handler suspended at await decodeAudioData, if any
    \* playback of the mentor's audio
    liveSources,    \* liveSourcesRef.current: the set of scheduled buffer sources
    srcState,       \* each buffer source: none, playing, ended, stopped
    srcOwner,       \* the invocation whose onmessage created the source
    srcStart,       \* the argument of source.start()
    srcDur,         \* audioBuffer.duration of the source
    liveNextStartTimeRef, \* liveNextStartTimeRef.current
    now,            \* wall time, in units of one buffer duration step
    ctxBase,        \* wall time at which the outputAudioCtx of the invocation was created
    \* history, kept for the properties
    priorSession,   \* liveSessionRef.current when the invocation began
    priorStream,    \* liveStreamRef.current when the invocation began
    priorSources,   \* liveSourcesRef.current when the invocation began
    priorClosed,    \* closedSince when the invocation began
    srcClock,       \* outputAudioCtx.currentTime when the source was scheduled
    srcFirst,       \* the source is the first scheduled since the session started or
                    \*   since an interruption was handled: "session", "reset", "no"
    resetSince,     \* an interruption was handled and nothing was scheduled since
    lateFrame,      \* the capture callback of the invocation has called
                    \*   sendRealtimeInput after stopLiveMentor returned
    stopRan,        \* stopLiveMentor has returned for the session of the invocation
    stopsInRow,     \* stopLiveMentor calls made in succession, nothing else between
    stopRaised,     \* a call of stopLiveMentor threw
    closedSince,    \* startLiveMentor was not called since stopLiveMentor last completed
                    \*   (or since the component was mounted)
    lastEvent,      \* the handler that ran last: stop, onclose, onerror, catch,
                    \*   interrupted, or other
    caught,         \* the error the catch block of startLiveMentor caught, when
                    \*   that block is the handler that ran last
    \* ---- live transcription (App.tsx, onmessage) ----
    curIn,          \* currentInputTranscription of each invocation
    curOut,         \* currentOutputTranscription of each invocation
    liveTranscription, \* React state liveTranscription
    updaters,       \* updater functions React has queued for liveTranscription
    turns,          \* history: per turn boundary since the transcript was last emptied,
                    \*   the fragments received since the previous boundary
    \* ---- single-shot speech (components/ChatInteraction.tsx) ----
    voicePc,        \* position of each handlePlayVoice invocation:
                    \*   idle, awaitSpeech, done, failed
    voiceMsg,       \* message.id of the invocation (0: none)
    playingId,      \* React state playingId (0 for null)
    audioSourceRef, \* audioSourceRef.current: the invocation whose source it holds,
                    \*   0 for null
    voiceSrc        \* the source of each invocation: none, playing, stopped (stop()
                    \*   was called, 'ended' not yet delivered), ended

retryVars == <<rpc, kind, maxRetries, ri, lastError, timer, outcome, shown,
               invoked, inflight, delays, elapsed, lastThrown, firstQuota, everyQuota>>
pcmVars == <<ppc, samples, blob, bytes, decoded, channels, audioBuffer>>
sessVars == <<lpc, stream, channel, liveSessionRef, liveStreamRef, isLiveMode,
              showMicHelp, liveError>>
srcVars == <<liveSources, srcState, srcOwner, srcStart, srcDur, srcClock, srcFirst>>
clockVars == <<liveNextStartTimeRef, now, ctxBase, resetSince>>
capVars == <<capture, lateFrame>>
priorVars == <<priorSession, priorStream, priorSources, priorClosed>>
stopVars == <<stopRan, stopRaised, closedSince>>
trVars == <<curIn, curOut, liveTranscription, updaters, turns>>
liveVars == <<sessVars, srcVars, clockVars, capVars, priorVars, stopVars, trVars,
              decoding, stopsInRow, lastEvent, caught>>
voiceVars == <<voicePc, voiceMsg, playingId, audioSourceRef, voiceSrc>>

-----------------------------------------------------------------------------
(* JavaScript values, as far as withRetry inspects them *)

Undef == [undef |-> TRUE]
Null == [null |-> TRUE]
Num(n) == [num |-> n]
Str(s) == [str |-> s]

IsStr(v) == "str" \in DOMAIN v
IsNum(v) == "num" \in DOMAIN v

\* ToBoolean
Truthy(v) ==
    IF IsNum(v) THEN v.num # 0
    ELSE IF IsStr(v) THEN v.str # ""
    ELSE FALSE

\* a || b
Or(a, b) == IF Truthy(a) THEN a ELSE b

\* String.prototype.includes
Includes(s, pat) ==
    \E k \in 1..(Len(s) - Len(pat) + 1) : SubSeq(s, k, k + Len(pat) - 1) = pat

\* An error value: a thrown string, or an object with the fields withRetry probes.
ErrObj(status, estatus, ecode, message) ==
    [typeof |-> "object", status |-> status, estatus |-> estatus,
     ecode |-> ecode, message |-> message]
ErrString(s) ==
    [typeof |-> "string", text |-> s]

\* err?.status, err?.error?.status, err?.error?.code, err?.message
PropStatus(err) == IF err.typeof = "object" THEN err.status ELSE Undef
PropErrorStatus(err) == IF err.typeof = "object" THEN err.estatus ELSE Undef
PropErrorCode(err) == IF err.typeof = "object" THEN err.ecode ELSE Undef
PropMessage(err) == IF err.typeof = "object" THEN err.message ELSE Undef

-----------------------------------------------------------------------------
(* withRetry: classification of a caught error *)

RateLimitCode == 429
ExhaustedMarker == "RESOURCE_EXHAUSTED"

\* const status = err?.status || err?.error?.status || err?.error?.code
\*                || (err?.message?.includes('429') ? 429 : null)
StatusOf(err) ==
    Or(Or(Or(PropStatus(err), PropErrorStatus(err)), PropErrorCode(err)),
       IF IsStr(PropMessage(err)) /\ Includes(PropMessage(err).str, "429")
       THEN Num(RateLimitCode) ELSE Null)

\* const message = err?.message || (typeof err === 'string' ? err : '')
MessageOf(err) ==
    Or(PropMessage(err), IF err.typeof = "string" THEN Str(err.text) ELSE Str(""))

IsQuotaError_noMessageProbe(err) ==
    \/ Or(Or(PropStatus(err), PropErrorStatus(err)), PropErrorCode(err)) = Num(RateLimitCode)
    \/ Or(Or(PropStatus(err), PropErrorStatus(err)), PropErrorCode(err)) = Str(ExhaustedMarker)
    \/ Includes(MessageOf(err).str, ExhaustedMarker)

\* const isQuotaError = status === 429 || status === "RESOURCE_EXHAUSTED"
\*                      || message.includes("RESOURCE_EXHAUSTED")
IsQuotaError(err) ==
    \/ StatusOf(err) = Num(RateLimitCode)
    \/ StatusOf(err) = Str(ExhaustedMarker)
    \/ Includes(MessageOf(err).str, ExhaustedMarker)

\* ChatInteraction.handleSend: its own test of the caught error
\*   const status = err?.status || err?.error?.status;
\*   status === 429 || message?.includes("RESOURCE_EXHAUSTED")
\*                  || message?.includes("RESOURCES_EXHAUSTED")
SendIsQuotaError(err) ==
    \/ Or(PropStatus(err), PropErrorStatus(err)) = Num(RateLimitCode)
    \/ /\ IsStr(PropMessage(err))
       /\ \/ Includes(PropMessage(err).str, "RESOURCE_EXHAUSTED")
          \/ Includes(PropMessage(err).str, "RESOURCES_EXHAUSTED")

(* The errors the remote service, the transport or fn itself can throw *)
E_429 == ErrObj(Num(429), Undef, Undef, Str("Too Many Requests"))
E_500 == ErrObj(Num(500), Undef, Undef, Str("Internal error"))
E_net == ErrObj(Undef, Undef, Undef, Str("Failed to fetch"))
E_msg429 == ErrObj(Undef, Undef, Undef, Str("got 429 from upstream"))
E_msgRE == ErrObj(Undef, Undef, Undef, Str("RESOURCE_EXHAUSTED: quota"))
E_msgRES == ErrObj(Undef, Undef, Undef, Str("RESOURCES_EXHAUSTED"))
E_api429 == ErrObj(Undef, Str("RESOURCE_EXHAUSTED"), Num(429), Str("quota exceeded"))
E_code429 == ErrObj(Undef, Undef, Num(429), Undef)
E_500code429 == ErrObj(Num(500), Str("INTERNAL"), Num(429), Str("backend error"))
E_strRE == ErrString("RESOURCE_EXHAUSTED")
E_str429 == ErrString("429")

\* analyzeMathProblem: thrown when JSON.parse fails
E_malformed ==
    ErrObj(Undef, Undef, Undef,
           Str("I had a little trouble organizing my thoughts. Could you show me the problem again?"))
\* generateSpeech: thrown when the response has no inline audio data
E_voice == ErrObj(Undef, Undef, Undef, Str("Voice unavailable."))

RemoteErrors ==
    {E_429, E_500, E_net, E_msg429, E_msgRE, E_msgRES, E_api429, E_code429,
     E_500code429, E_strRE, E_str429}

-----------------------------------------------------------------------------
(* withRetry and the functions that call it *)

Calls == {"a", "b"}
Kinds == {"plain", "analyze", "speech", "chat"}

DefaultMaxRetries == 3
BackoffUnitMs == 1000
MinMaxRetries == 0 - 1
MaxMaxRetries == 3

\* What one remote request can come back with: a usable body, a body that is
\* not what the caller needs (text that is no JSON, a response without inline
\* audio data), or a thrown error.
Bodies == {"good", "bad"}
RemoteOutcomes ==
    [ok : {TRUE}, body : Bodies] \cup [ok : {FALSE}, err : RemoteErrors]

Threw(e) == [threw |-> TRUE, val |-> e]
Returned(v) == [threw |-> FALSE, val |-> v]
NoOutcome == [pending |-> TRUE]

\* The operation each caller passes to withRetry, applied to what the remote
\* request came back with.
\*   analyzeMathProblem: JSON.parse(response.text.trim()), else throws
\*   generateSpeech:     throws when the inline audio data is missing
\*   handleSend:         chatRef.current.sendMessage, passed through
\*   plain:              any fn, passed through
FnResult(k, o) ==
    IF ~o.ok THEN Threw(o.err)
    ELSE IF k = "analyze" /\ o.body = "bad" THEN Threw(E_malformed)
    ELSE IF k = "speech" /\ o.body = "bad" THEN Threw(E_voice)
    ELSE Returned(Str(o.body))

GiveUp_offByOne(err, i, m) == ~IsQuotaError(err) \/ i = m
GiveUp_anyError(err, i, m) == i = m - 1

\* if (!isQuotaError || i === maxRetries - 1) break;
GiveUp(err, i, m) == ~IsQuotaError(err) \/ i = m - 1

\* Math.pow(2, i) * 1000
BackoffMs(i) == (2 ^ i) * BackoffUnitMs

Rethrow_wrapped(err) ==
    Threw(ErrObj(Undef, Undef, Undef, Str("All retries failed")))

\* throw lastError;
Rethrow(err) == Threw(err)

\* for (...; i < maxRetries; ...) { try { return await fn(); } ...
\* entering the loop body with counter i, or leaving the loop: throw lastError
EnterLoop(c, i, m, err) ==
    IF i < m
    THEN /\ rpc' = [rpc EXCEPT ![c] = "attempt"]
         /\ invoked' = [invoked EXCEPT ![c] = @ + 1]
         /\ inflight' = [inflight EXCEPT ![c] = @ + 1]
         /\ outcome' = outcome
    ELSE /\ rpc' = [rpc EXCEPT ![c] = "raised"]
         /\ outcome' = [outcome EXCEPT ![c] = Rethrow(err)]
         /\ UNCHANGED <<invoked, inflight>>

\* A caller starts withRetry(fn, m).  The handlers of the UI run one call of
\* their kind at a time (isAnalyzing, audioState.isLoading, isTyping) and use the
\* default maxRetries.
Call(c, k, m) ==
    /\ rpc[c] = "idle"
    /\ k # "plain" =>
         /\ m = DefaultMaxRetries
         /\ \A d \in Calls : kind[d] = k => rpc[d] \in {"idle", "shown"}
    /\ kind' = [kind EXCEPT ![c] = k]
    /\ maxRetries' = [maxRetries EXCEPT ![c] = m]
    /\ ri' = [ri EXCEPT ![c] = 0]
    /\ lastError' = [lastError EXCEPT ![c] = Undef]
    /\ EnterLoop(c, 0, m, Undef)
    /\ UNCHANGED <<timer, shown, delays, elapsed, lastThrown, firstQuota, everyQuota>>
    /\ UNCHANGED <<pcmVars, liveVars, voiceVars>>

\* The invocation of fn in flight settles with remote outcome o.
Settle(c, o) ==
    /\ rpc[c] = "attempt"
    /\ LET r == FnResult(kind[c], o) IN
       /\ inflight' = [inflight EXCEPT ![c] = @ - 1]
       /\ lastThrown' = [lastThrown EXCEPT ![c] = r]
       /\ IF ~r.threw
          THEN /\ rpc' = [rpc EXCEPT ![c] = "returned"]
               /\ outcome' = [outcome EXCEPT ![c] = r]
               /\ everyQuota' = [everyQuota EXCEPT ![c] = FALSE]
               /\ UNCHANGED <<lastError, timer, delays, firstQuota>>
          ELSE /\ lastError' = [lastError EXCEPT ![c] = r.val]
               /\ firstQuota' = [firstQuota EXCEPT ![c] =
                     IF @ # "none" THEN @
                     ELSE IF IsQuotaError(r.val) THEN "yes" ELSE "no"]
               /\ everyQuota' = [everyQuota EXCEPT ![c] = @ /\ IsQuotaError(r.val)]
               /\ IF GiveUp(r.val, ri[c], maxRetries[c])
                  THEN /\ rpc' = [rpc EXCEPT ![c] = "raised"]
                       /\ outcome' = [outcome EXCEPT ![c] = Rethrow(r.val)]
                       /\ UNCHANGED <<timer, delays>>
                  ELSE /\ rpc' = [rpc EXCEPT ![c] = "backoff"]
                       /\ timer' = [timer EXCEPT ![c] = BackoffMs(ri[c])]
                       /\ delays' = [delays EXCEPT ![c] = Append(@, BackoffMs(ri[c]))]
                       /\ outcome' = outcome
    /\ UNCHANGED <<kind, maxRetries, ri, shown, invoked, elapsed>>
    /\ UNCHANGED <<pcmVars, liveVars, voiceVars>>

\* Time passes: every pending timer runs down by one unit.
Tick ==
    /\ \E c \in Calls : timer[c] > 0
    /\ timer' = [c \in Calls |->
                   IF timer[c] > BackoffUnitMs THEN timer[c] - BackoffUnitMs ELSE 0]
    /\ elapsed' = [c \in Calls |->
                   IF timer[c] > 0 THEN elapsed[c] + BackoffUnitMs ELSE elapsed[c]]
    /\ UNCHANGED <<rpc, kind, maxRetries, ri, lastError, outcome, shown,
                   invoked, inflight, delays, lastThrown, firstQuota, everyQuota>>
    /\ UNCHANGED <<pcmVars, liveVars, voiceVars>>

Wake_notAwaited(c) ==
    /\ rpc[c] = "backoff"
    /\ ri' = [ri EXCEPT ![c] = @ + 1]
    /\ EnterLoop(c, ri[c] + 1, maxRetries[c], lastError[c])
    /\ UNCHANGED <<kind, maxRetries, lastError, timer, shown, delays, elapsed,
                   lastThrown, firstQuota, everyQuota>>
    /\ UNCHANGED <<pcmVars, liveVars, voiceVars>>

\* The timer of call c has run out: the promise of line 764 resolves, i++ and
\* the loop goes round.
Wake(c) ==
    /\ rpc[c] = "backoff"
    /\ timer[c] = 0
    /\ ri' = [ri EXCEPT ![c] = @ + 1]
    /\ EnterLoop(c, ri[c] + 1, maxRetries[c], lastError[c])
    /\ UNCHANGED <<kind, maxRetries, lastError, timer, shown, delays, elapsed,
                   lastThrown, firstQuota, everyQuota>>
    /\ UNCHANGED <<pcmVars, liveVars, voiceVars>>

\* What each handler shows once its call is over.
\*   handleAnalyze:   catch: errorMessages[selectedLanguage], whatever the error
\*   handlePlayVoice: catch: "Teacher's voice had a tiny catch...", whatever the error
\*   handleSend:      catch: labels.quotaError if its own test says quota, else
\*                    "I'm sorry, I lost my train of thought..."
Presented(k, out) ==
    IF ~out.threw THEN "ok"
    ELSE IF k = "chat" /\ SendIsQuotaError(out.val) THEN "quota"
    ELSE "generic"

Present(c) ==
    /\ rpc[c] \in {"returned", "raised"}
    /\ kind[c] # "plain"
    /\ shown' = [shown EXCEPT ![c] = Presented(kind[c], outcome[c])]
    /\ rpc' = [rpc EXCEPT ![c] = "shown"]
    /\ UNCHANGED <<kind, maxRetries, ri, lastError, timer, outcome,
                   invoked, inflight, delays, elapsed, lastThrown, firstQuota, everyQuota>>
    /\ UNCHANGED <<pcmVars, liveVars, voiceVars>>

-----------------------------------------------------------------------------
(* PCM codec: createPcmBlob, encode, decode, decodeAudioData *)

PcmScale == 32768
SampleDen == 49152
MaxSamples == 2
Pad == 64

\* A sample x is the rational n / SampleDen (SampleDen = 3 * 2^14 keeps every
\* product below 2^31 and puts samples between two PCM steps); the inputs cover
\* both endpoints of [-1, 1], their neighbours, the middle and small values.
SampleValues ==
    {0 - SampleDen, 1 - SampleDen, 0 - (SampleDen \div 2), 0 - 3, 0 - 1,
     0, 1, SampleDen \div 2, SampleDen - 1, SampleDen}

\* ToInt16 of the real p / q: drop the fraction (towards zero), then wrap
\* modulo 2^16 into -32768 .. 32767, as a store into an Int16Array does.
Trunc(p, q) == IF p >= 0 THEN p \div q ELSE 0 - ((0 - p) \div q)
ToInt16(p, q) == ((Trunc(p, q) + 2 ^ 15) % (2 ^ 16)) - 2 ^ 15

\* The two bytes of an Int16Array element, low byte first.
Int16Bytes(v) == LET u == v % (2 ^ 16) IN <<u % 256, u \div 256>>

RECURSIVE Flatten(_)
Flatten(q) == IF q = <<>> THEN <<>> ELSE Head(q) \o Flatten(Tail(q))

\* btoa: three bytes to four sextets, '=' (Pad) filling the last group.
RECURSIVE Btoa(_)
Btoa(b) ==
    IF Len(b) = 0 THEN <<>>
    ELSE IF Len(b) = 1 THEN <<b[1] \div 4, (b[1] % 4) * 16, Pad, Pad>>
    ELSE IF Len(b) = 2
    THEN <<b[1] \div 4, (b[1] % 4) * 16 + b[2] \div 16, (b[2] % 16) * 4, Pad>>
    ELSE <<b[1] \div 4, (b[1] % 4) * 16 + b[2] \div 16,
           (b[2] % 16) * 4 + b[3] \div 64, b[3] % 64>>
         \o Btoa(SubSeq(b, 4, Len(b)))

\* atob: four sextets back to up to three bytes.
RECURSIVE Atob(_)
Atob(t) ==
    IF Len(t) < 4 THEN <<>>
    ELSE (<<t[1] * 4 + t[2] \div 16>>
          \o (IF t[3] = Pad THEN <<>> ELSE <<(t[2] % 16) * 16 + t[3] \div 4>>)
          \o (IF t[3] = Pad \/ t[4] = Pad THEN <<>> ELSE <<(t[3] % 4) * 64 + t[4]>>))
         \o Atob(SubSeq(t, 5, Len(t)))

\* encode(bytes): the bytes as char codes, then btoa
encode(b) == Btoa(b)

\* decode(base64): atob, then the char codes as bytes
decode(t) == Atob(t)

\* createPcmBlob(data): int16[i] = data[i] * 32768; encode(new Uint8Array(int16.buffer))
createPcmBlob(data) ==
    encode(Flatten([i \in 1..Len(data) |->
                      Int16Bytes(ToInt16(data[i] * PcmScale, SampleDen))]))

\* new Int16Array(data.buffer): element k of the view
Int16At(data, k) ==
    LET u == data[2 * k - 1] + 256 * data[2 * k]
    IN IF u >= 2 ^ 15 THEN u - 2 ^ 16 ELSE u

\* decodeAudioData(data, ctx, sampleRate, numChannels): the channels of the
\* buffer, each sample dataInt16[i * numChannels + channel] / 32768.0 kept as its
\* numerator over 32768.  A byte length that is odd makes the Int16Array
\* constructor throw a RangeError.  frameCount is a quotient that need not be
\* whole: createBuffer takes its length as an unsigned long (the fraction is
\* dropped) and throws a NotSupportedError for a length of 0, and the stores of
\* the loop beyond the length of the channel are ignored.
decodeAudioData(data, numChannels) ==
    IF Len(data) % 2 # 0 THEN [threw |-> TRUE, val |-> "RangeError"]
    ELSE LET n == Len(data) \div 2
             frameCount == n \div numChannels
         IN IF frameCount = 0 THEN [threw |-> TRUE, val |-> "NotSupportedError"]
            ELSE [threw |-> FALSE,
                  val |-> [ch \in 1..numChannels |->
                             [i \in 1..frameCount |->
                                 Int16At(data, (i - 1) * numChannels + ch)]]]

RECURSIVE SeqsUpTo(_, _)
SeqsUpTo(S, n) ==
    IF n = 0 THEN {<<>>}
    ELSE LET shorter == SeqsUpTo(S, n - 1)
         IN shorter \cup {Append(q, x) : q \in {r \in shorter : Len(r) = n - 1}, x \in S}

\* A frame of microphone samples is handed to createPcmBlob.
PcmEncode ==
    /\ ppc = "input"
    /\ blob' = createPcmBlob(samples)
    /\ ppc' = "encoded"
    /\ UNCHANGED <<samples, bytes, decoded, channels, audioBuffer>>
    /\ UNCHANGED <<retryVars, liveVars, voiceVars>>

\* The base64 text is turned back into bytes.
PcmTransport ==
    /\ ppc = "encoded"
    /\ bytes' = decode(blob)
    /\ ppc' = "bytes"
    /\ UNCHANGED <<samples, blob, decoded, channels, audioBuffer>>
    /\ UNCHANGED <<retryVars, liveVars, voiceVars>>

\* The bytes are decoded into a one-channel buffer.
PcmDecode ==
    /\ ppc = "bytes"
    /\ LET r == decodeAudioData(bytes, 1) IN
         IF r.threw
         THEN ppc' = "failed" /\ decoded' = decoded
         ELSE ppc' = "decoded" /\ decoded' = r.val[1]
    /\ UNCHANGED <<samples, blob, bytes, channels, audioBuffer>>
    /\ UNCHANGED <<retryVars, liveVars, voiceVars>>

MaxBytes == 6
MaxChannels == 2
ByteValues == {0, 128, 255}

\* decodeAudioData is called on bytes that did not come from createPcmBlob
\* (the inline data of a message or of a speech response), with a channel count.
DecodeRaw ==
    /\ ppc = "raw"
    /\ audioBuffer' = decodeAudioData(bytes, channels)
    /\ ppc' = "settled"
    /\ UNCHANGED <<samples, blob, bytes, decoded, channels>>
    /\ UNCHANGED <<retryVars, liveVars, voiceVars>>

-----------------------------------------------------------------------------
(* Live mentor: startLiveMentor, its callbacks, stopLiveMentor *)

MaxStarts == 2
MaxSources == 3
MaxBuffers == 2
Starts == 1..MaxStarts
Sources == 1..MaxSources

UpperLetters == "ABCDEFGHIJKLMNOPQRSTUVWXYZ"
LowerLetters == "abcdefghijklmnopqrstuvwxyz"

\* String.prototype.toLowerCase
LowerChar(ch) ==
    IF \E i \in 1..Len(UpperLetters) : SubSeq(UpperLetters, i, i) = ch
    THEN LET i == CHOOSE i \in 1..Len(UpperLetters) : SubSeq(UpperLetters, i, i) = ch
         IN SubSeq(LowerLetters, i, i)
    ELSE ch
RECURSIVE ToLowerCase(_)
ToLowerCase(t) ==
    IF Len(t) = 0 THEN ""
    ELSE LowerChar(SubSeq(t, 1, 1)) \o ToLowerCase(SubSeq(t, 2, Len(t)))

\* What getUserMedia can reject with, and what ai.live.connect can.
MicErrors ==
    {[name |-> "NotAllowedError", message |-> "Permission denied"],
     [name |-> "NotFoundError", message |-> "Requested device not found"]}
ConnectErrors ==
    {[name |-> "Error", message |-> "WebSocket connection failed"],
     [name |-> "Error", message |-> "PERMISSION_DENIED: API key not valid"]}

\* name === 'NotAllowedError' || name === 'PermissionDeniedError'
\*   || msg.toLowerCase().includes('denied') || msg.toLowerCase().includes('permission')
IsPermissionError(err) ==
    \/ err.name = "NotAllowedError"
    \/ err.name = "PermissionDeniedError"
    \/ Includes(ToLowerCase(err.message), "denied")
    \/ Includes(ToLowerCase(err.message), "permission")

\* What one message of the remote side carries: inline audio of a duration
\* (0: none), the interrupted flag, transcription fragments, turnComplete.
MaxDur == 1
MaxClock == 1
InFragments == {"", "a", "b"}
OutFragments == {"", "c"}
Message(audio, interrupted, inText, outText, turnComplete) ==
    [audio |-> audio, interrupted |-> interrupted, inText |-> inText,
     outText |-> outText, turnComplete |-> turnComplete]
AudioMessagesUpTo(maxDur) ==
    {Message(d, i, "", "", FALSE) : d \in 0..maxDur, i \in BOOLEAN}
        \ {Message(0, FALSE, "", "", FALSE)}
TextMessages ==
    {Message(0, FALSE, a, b, t) : a \in InFragments, b \in OutFragments, t \in BOOLEAN}
        \ {Message(0, FALSE, "", "", FALSE)}


\* The audio messages the remote side sends to a client that has scheduled
\* fewer than n buffers, then only interruptions.
Scheduled == Cardinality({x \in Sources : srcState[x] # "none"})
RemoteAudio(n) ==
    IF Scheduled < n THEN AudioMessagesUpTo(MaxDur)
    ELSE {Message(0, TRUE, "", "", FALSE)}

NoDecode == [idle |-> TRUE]

\* A callback starts only when the one before it has run to its end: the
\* continuation of await decodeAudioData (an async function that never waits)
\* is a microtask, and microtasks run before the next callback.
TaskTurn_preempted == TRUE
TaskTurn == decoding = NoDecode

\* Every handler but stopLiveMentor ends a run of successive stops; of the
\* handlers, lastEvent tells apart the ones the properties are about.
NoError == [name |-> "", message |-> ""]
Event(name) ==
    /\ lastEvent' = name
    /\ stopsInRow' = 0
    /\ caught' = NoError

\* outputAudioCtx.currentTime of invocation k
CurrentTime(k) == now - ctxBase[k]

Max_second(a, b) == b

\* Math.max
Max(a, b) == IF a >= b THEN a ELSE b

\* session.close() on a channel in state st
AfterClose(st) == IF st = "open" THEN "closing" ELSE st

\* s.stop() on every source of the set
StopSources(S) == [x \in Sources |-> IF x \in S THEN "stopped" ELSE srcState[x]]

\* track.stop() on the tracks of the stream liveStreamRef holds
StopTracks == [stream EXCEPT ![liveStreamRef] = "stopped"]

StopRaises_uncaught(throws) == throws

\* try { liveSessionRef.current.close(); } catch(e) {}: whether the exception
\* of a close() that throws leaves stopLiveMentor
StopRaises(throws) == FALSE

\* The body of stopLiveMentor, run on the channel states chan; throws says
\* whether close() throws when it is called.
StopLiveMentorBody(chan, throws) ==
    /\ stopsInRow' = IF stopsInRow < 2 THEN stopsInRow + 1 ELSE 2
    /\ IF liveSessionRef # 0 /\ StopRaises(throws)
       THEN /\ stopRaised' = TRUE
            /\ channel' = chan
            /\ UNCHANGED <<liveSessionRef, stream, liveStreamRef, srcState, liveSources,
                           isLiveMode, stopRan, closedSince>>
       ELSE /\ channel' = IF liveSessionRef # 0 /\ ~throws
                          THEN [chan EXCEPT ![liveSessionRef] = AfterClose(@)]
                          ELSE chan
            /\ liveSessionRef' = 0
            /\ stream' = IF liveStreamRef # 0 THEN StopTracks ELSE stream
            /\ liveStreamRef' = 0
            /\ srcState' = StopSources(liveSources)
            /\ liveSources' = {}
            /\ isLiveMode' = FALSE
            /\ stopRan' = [k \in Starts |->
                             stopRan[k] \/ k = liveSessionRef \/ k = liveStreamRef]
            /\ closedSince' = TRUE
            /\ stopRaised' = stopRaised

\* The synchronous head of startLiveMentor, up to the await of getUserMedia:
\* the tracks of a stream still referenced are stopped (the reference stays).
StartLiveMentor(k) ==
    /\ lpc[k] = "idle"
    /\ \A j \in Starts : j < k => lpc[j] # "idle"
    /\ stream' = IF liveStreamRef # 0 THEN StopTracks ELSE stream
    /\ liveError' = "none"
    /\ lpc' = [lpc EXCEPT ![k] = "awaitMic"]
    /\ priorSession' = [priorSession EXCEPT ![k] = liveSessionRef]
    /\ priorStream' = [priorStream EXCEPT ![k] = liveStreamRef]
    /\ priorSources' = [priorSources EXCEPT ![k] = liveSources]
    /\ priorClosed' = [priorClosed EXCEPT ![k] = closedSince]
    /\ closedSince' = FALSE
    /\ Event("other")
    /\ UNCHANGED <<srcVars, clockVars, capVars, trVars, decoding, stopRan, stopRaised>>

\* The mentor button while live mode is off: onClick = startLiveMentor.
ClickStart(k) ==
    /\ TaskTurn
    /\ ~isLiveMode
    /\ ~showMicHelp
    /\ StartLiveMentor(k)
    /\ UNCHANGED <<channel, liveSessionRef, liveStreamRef, isLiveMode, showMicHelp>>
    /\ UNCHANGED <<retryVars, pcmVars, voiceVars>>

\* handleMicHelpRetry: the "Try Again" button of the microphone help.
HandleMicHelpRetry(k) ==
    /\ TaskTurn
    /\ showMicHelp
    /\ showMicHelp' = FALSE
    /\ StartLiveMentor(k)
    /\ UNCHANGED <<channel, liveSessionRef, liveStreamRef, isLiveMode>>
    /\ UNCHANGED <<retryVars, pcmVars, voiceVars>>

\* The backdrop of the microphone help: setShowMicHelp(false).
DismissMicHelp ==
    /\ TaskTurn
    /\ showMicHelp
    /\ showMicHelp' = FALSE
    /\ Event("other")
    /\ UNCHANGED <<lpc, stream, channel, liveSessionRef, liveStreamRef, isLiveMode,
                   liveError>>
    /\ UNCHANGED <<srcVars, clockVars, capVars, priorVars, stopVars, trVars, decoding>>
    /\ UNCHANGED <<retryVars, pcmVars, voiceVars>>

\* getUserMedia resolves: lines 265-275, up to the await of resume().  The
\* output context is created, its clock at 0; setLiveTranscription([]) replaces
\* whatever the state holds and whatever is queued for it.
MicGranted(k) ==
    /\ TaskTurn
    /\ lpc[k] = "awaitMic"
    /\ stream' = [stream EXCEPT ![k] = "live"]
    /\ liveStreamRef' = k
    /\ isLiveMode' = TRUE
    /\ showMicHelp' = FALSE
    /\ liveTranscription' = <<>>
    /\ updaters' = <<>>
    /\ turns' = <<>>
    /\ ctxBase' = [ctxBase EXCEPT ![k] = now]
    /\ lpc' = [lpc EXCEPT ![k] = "awaitResume"]
    /\ Event("other")
    /\ UNCHANGED <<channel, liveSessionRef, liveError, liveNextStartTimeRef, now,
                   resetSince, curIn, curOut>>
    /\ UNCHANGED <<srcVars, capVars, priorVars, stopVars, decoding>>
    /\ UNCHANGED <<retryVars, pcmVars, voiceVars>>

PermissionErrors == {e \in MicErrors \cup ConnectErrors : IsPermissionError(e)}

StartCatch_alwaysHelp(k, err) ==
    /\ showMicHelp' = TRUE /\ liveError' = liveError
    /\ isLiveMode' = FALSE
    /\ lpc' = [lpc EXCEPT ![k] = "failed"]
    /\ lastEvent' = "catch"
    /\ stopsInRow' = 0
    /\ caught' = err

\* The catch block of startLiveMentor, lines 337-348.
StartCatch(k, err) ==
    /\ IF err \in PermissionErrors
       THEN showMicHelp' = TRUE /\ liveError' = liveError
       ELSE liveError' = "microphone" /\ showMicHelp' = showMicHelp
    /\ isLiveMode' = FALSE
    /\ lpc' = [lpc EXCEPT ![k] = "failed"]
    /\ lastEvent' = "catch"
    /\ stopsInRow' = 0
    /\ caught' = err

\* getUserMedia rejects.
MicDenied(k, err) ==
    /\ TaskTurn
    /\ lpc[k] = "awaitMic"
    /\ StartCatch(k, err)
    /\ UNCHANGED <<stream, channel, liveSessionRef, liveStreamRef>>
    /\ UNCHANGED <<srcVars, clockVars, capVars, priorVars, stopVars, trVars, decoding>>
    /\ UNCHANGED <<retryVars, pcmVars, voiceVars>>

\* Both audio contexts have resumed: the transcription buffers of the
\* invocation are created empty, ai.live.connect is called, line 282, and the
\* function waits for the session promise.
AudioResumed(k) ==
    /\ TaskTurn
    /\ lpc[k] = "awaitResume"
    /\ channel' = [channel EXCEPT ![k] = "connecting"]
    /\ curIn' = [curIn EXCEPT ![k] = ""]
    /\ curOut' = [curOut EXCEPT ![k] = ""]
    /\ lpc' = [lpc EXCEPT ![k] = "awaitSession"]
    /\ Event("other")
    /\ UNCHANGED <<stream, liveSessionRef, liveStreamRef, isLiveMode, showMicHelp,
                   liveError, liveTranscription, updaters, turns>>
    /\ UNCHANGED <<srcVars, clockVars, capVars, priorVars, stopVars, decoding>>
    /\ UNCHANGED <<retryVars, pcmVars, voiceVars>>

\* onopen, lines 285-297: the script processor is connected and its
\* onaudioprocess callback installed.
OnOpen(k) ==
    /\ TaskTurn
    /\ lpc[k] = "awaitSession"
    /\ channel[k] = "connecting"
    /\ ~capture[k]
    /\ capture' = [capture EXCEPT ![k] = TRUE]
    /\ Event("other")
    /\ UNCHANGED <<sessVars, srcVars, clockVars, lateFrame, priorVars, stopVars, trVars,
                   decoding>>
    /\ UNCHANGED <<retryVars, pcmVars, voiceVars>>

\* onaudioprocess, lines 288-294: a frame of microphone samples is encoded
\* and, the session promise being fulfilled, handed to session.sendRealtimeInput.
AudioProcess(k) ==
    /\ TaskTurn
    /\ capture[k]
    /\ lpc[k] = "done"
    /\ lateFrame' = [lateFrame EXCEPT ![k] = @ \/ stopRan[k]]
    /\ Event("other")
    /\ UNCHANGED <<sessVars, srcVars, clockVars, capture, priorVars, stopVars, trVars,
                   decoding>>
    /\ UNCHANGED <<retryVars, pcmVars, voiceVars>>

\* The session promise resolves, onopen having run:
\* liveSessionRef.current = await sessionPromise.
ConnectResolved(k) ==
    /\ TaskTurn
    /\ lpc[k] = "awaitSession"
    /\ capture[k]
    /\ channel' = [channel EXCEPT ![k] = "open"]
    /\ liveSessionRef' = k
    /\ lpc' = [lpc EXCEPT ![k] = "done"]
    /\ Event("other")
    /\ UNCHANGED <<stream, liveStreamRef, isLiveMode, showMicHelp, liveError>>
    /\ UNCHANGED <<srcVars, clockVars, capVars, priorVars, stopVars, trVars, decoding>>
    /\ UNCHANGED <<retryVars, pcmVars, voiceVars>>

\* The session promise rejects: the catch block runs.
ConnectRejected(k, err) ==
    /\ TaskTurn
    /\ lpc[k] = "awaitSession"
    /\ channel' = [channel EXCEPT ![k] = "failed"]
    /\ StartCatch(k, err)
    /\ UNCHANGED <<stream, liveSessionRef, liveStreamRef>>
    /\ UNCHANGED <<srcVars, clockVars, capVars, priorVars, stopVars, trVars, decoding>>
    /\ UNCHANGED <<retryVars, pcmVars, voiceVars>>

MaxTurns == 1
MaxText == 2

ResetTimeline_kept(next) == next

\* liveNextStartTimeRef.current = 0, line 320
ResetTimeline(next) == 0

\* The source the next createBufferSource returns.
NextSource ==
    CHOOSE x \in Sources :
        srcState[x] = "none" /\ \A y \in Sources : y < x => srcState[y] # "none"

\* onmessage, lines 298-322, up to the await of decodeAudioData when the message
\* carries audio and to its end when it does not.  The fragments are added to
\* the buffers of the invocation; on turnComplete an updater that reads the
\* buffers is handed to setLiveTranscription and the buffers are emptied.  React
\* calls the updater at once when nothing is queued for the component (eager),
\* or when it renders next.
OnMessage(k, m, eager) ==
    /\ TaskTurn
    /\ channel[k] = "open"
    /\ m.audio > 0 => \E x \in Sources : srcState[x] = "none"
    /\ LET inBuf == curIn[k] \o m.inText
           outBuf == curOut[k] \o m.outText
       IN /\ Len(inBuf) <= MaxText /\ Len(outBuf) <= MaxText
          /\ IF m.turnComplete
             THEN /\ Len(turns) < MaxTurns
                  /\ turns' = Append(turns, [user |-> inBuf, ai |-> outBuf])
                  /\ IF eager /\ updaters = <<>>
                     THEN /\ liveTranscription' =
                                Append(liveTranscription, [user |-> inBuf, ai |-> outBuf])
                          /\ updaters' = updaters
                     ELSE /\ updaters' = Append(updaters, k)
                          /\ liveTranscription' = liveTranscription
                  /\ curIn' = [curIn EXCEPT ![k] = ""]
                  /\ curOut' = [curOut EXCEPT ![k] = ""]
             ELSE /\ curIn' = [curIn EXCEPT ![k] = inBuf]
                  /\ curOut' = [curOut EXCEPT ![k] = outBuf]
                  /\ UNCHANGED <<liveTranscription, updaters, turns>>
    /\ IF m.audio > 0
       THEN /\ liveNextStartTimeRef' = Max(liveNextStartTimeRef, CurrentTime(k))
            /\ decoding' = [k |-> k, dur |-> m.audio, interrupted |-> m.interrupted]
            /\ Event("other")
            /\ UNCHANGED <<srcVars, resetSince>>
       ELSE IF m.interrupted
       THEN /\ srcState' = StopSources(liveSources)
            /\ liveSources' = {}
            /\ liveNextStartTimeRef' = ResetTimeline(liveNextStartTimeRef)
            /\ resetSince' = TRUE
            /\ Event("interrupted")
            /\ UNCHANGED <<srcOwner, srcStart, srcDur, srcClock, srcFirst, decoding>>
       ELSE /\ Event("other")
            /\ UNCHANGED <<srcVars, liveNextStartTimeRef, resetSince, decoding>>
    /\ UNCHANGED <<sessVars, now, ctxBase, capVars, priorVars, stopVars>>
    /\ UNCHANGED <<retryVars, pcmVars, voiceVars>>

\* onmessage, lines 309-321: decodeAudioData has settled; the source is
\* created, started at liveNextStartTimeRef and added to liveSourcesRef, then
\* the interrupted flag of the same message is handled.
OnDecoded ==
    /\ decoding # NoDecode
    /\ LET k == decoding.k
           d == decoding.dur
           x == NextSource
           first == IF \A y \in Sources : srcOwner[y] # k THEN "session"
                    ELSE IF resetSince THEN "reset" ELSE "no"
       IN /\ srcOwner' = [srcOwner EXCEPT ![x] = k]
          /\ srcStart' = [srcStart EXCEPT ![x] = liveNextStartTimeRef]
          /\ srcDur' = [srcDur EXCEPT ![x] = d]
          /\ srcClock' = [srcClock EXCEPT ![x] = CurrentTime(k)]
          /\ srcFirst' = [srcFirst EXCEPT ![x] = first]
          /\ IF decoding.interrupted
             THEN /\ srcState' = [y \in Sources |->
                                    IF y \in liveSources \cup {x} THEN "stopped"
                                    ELSE srcState[y]]
                  /\ liveSources' = {}
                  /\ liveNextStartTimeRef' = ResetTimeline(liveNextStartTimeRef + d)
                  /\ resetSince' = TRUE
                  /\ Event("interrupted")
             ELSE /\ srcState' = [srcState EXCEPT ![x] = "playing"]
                  /\ liveSources' = liveSources \cup {x}
                  /\ liveNextStartTimeRef' = liveNextStartTimeRef + d
                  /\ resetSince' = FALSE
                  /\ Event("other")
    /\ decoding' = NoDecode
    /\ UNCHANGED <<sessVars, now, ctxBase, capVars, priorVars, stopVars, trVars>>
    /\ UNCHANGED <<retryVars, pcmVars, voiceVars>>

\* The 'ended' listener of a source whose buffer has played to its end.
SourceEnded(x) ==
    /\ TaskTurn
    /\ srcState[x] = "playing"
    /\ srcState' = [srcState EXCEPT ![x] = "ended"]
    /\ liveSources' = liveSources \ {x}
    /\ Event("other")
    /\ UNCHANGED <<srcOwner, srcStart, srcDur, srcClock, srcFirst>>
    /\ UNCHANGED <<sessVars, clockVars, capVars, priorVars, stopVars, trVars, decoding>>
    /\ UNCHANGED <<retryVars, pcmVars, voiceVars>>

\* React renders the component: the queued updaters run, each reading the
\* buffers of its invocation as they are now.
Render ==
    /\ TaskTurn
    /\ updaters # <<>>
    /\ liveTranscription' =
          liveTranscription \o
              [i \in 1..Len(updaters) |->
                  [user |-> curIn[updaters[i]], ai |-> curOut[updaters[i]]]]
    /\ updaters' = <<>>
    /\ Event("other")
    /\ UNCHANGED <<curIn, curOut, turns>>
    /\ UNCHANGED <<sessVars, srcVars, clockVars, capVars, priorVars, stopVars, decoding>>
    /\ UNCHANGED <<retryVars, pcmVars, voiceVars>>

\* Time passes: the clock of every output context advances by one unit.
ClockTick ==
    /\ TaskTurn
    /\ now < MaxClock
    /\ now' = now + 1
    /\ UNCHANGED <<liveNextStartTimeRef, ctxBase, resetSince>>
    /\ UNCHANGED <<sessVars, srcVars, capVars, priorVars, stopVars, trVars, decoding,
                   stopsInRow, lastEvent, caught>>
    /\ UNCHANGED <<retryVars, pcmVars, voiceVars>>

\* What stopLiveMentor leaves alone.
StopFrame ==
    /\ caught' = NoError
    /\ UNCHANGED <<lpc, showMicHelp, srcOwner, srcStart, srcDur, srcClock, srcFirst>>
    /\ UNCHANGED <<clockVars, capVars, priorVars, trVars, decoding>>
    /\ UNCHANGED <<retryVars, pcmVars, voiceVars>>

\* stopLiveMentor from the UI: the mentor button while live mode is on, or
\* reset (the header).  The microphone help covers both while it is shown.
ClickStop(throws) ==
    /\ TaskTurn
    /\ ~showMicHelp
    /\ StopLiveMentorBody(channel, throws)
    /\ lastEvent' = "stop"
    /\ liveError' = liveError
    /\ StopFrame

\* onclose: () => stopLiveMentor(), after the channel of invocation k has
\* closed (by the remote side, or after session.close()).
OnClose(k, throws) ==
    /\ TaskTurn
    /\ channel[k] \in {"open", "closing"}
    /\ StopLiveMentorBody([channel EXCEPT ![k] = "closed"], throws)
    /\ lastEvent' = "onclose"
    /\ liveError' = liveError
    /\ StopFrame

OnError_noTeardown(k, throws) ==
    /\ TaskTurn
    /\ channel[k] = "open"
    /\ liveError' = "mentor"
    /\ lastEvent' = "onerror"
    /\ caught' = NoError
    /\ UNCHANGED <<lpc, stream, channel, liveSessionRef, liveStreamRef, isLiveMode,
                   showMicHelp, stopsInRow>>
    /\ UNCHANGED <<srcVars, clockVars, capVars, priorVars, stopVars, trVars, decoding>>
    /\ UNCHANGED <<retryVars, pcmVars, voiceVars>>

\* onerror, lines 324-328.
OnError(k, throws) ==
    /\ TaskTurn
    /\ channel[k] = "open"
    /\ liveError' = "mentor"
    /\ StopLiveMentorBody(channel, throws)
    /\ lastEvent' = "onerror"
    /\ StopFrame

-----------------------------------------------------------------------------
(* ChatInteraction: handlePlayVoice, stopAudio *)

MaxPlays == 3
MaxMessages == 2
Plays == 1..MaxPlays
Messages == 1..MaxMessages

\* source.stop()
AfterStop(st) == IF st = "playing" THEN "stopped" ELSE st

\* stopAudio, lines 45-51, but for setPlayingId(null): the source the ref
\* holds is stopped and the ref cleared.
StopAudio ==
    /\ voiceSrc' = IF audioSourceRef # 0
                   THEN [voiceSrc EXCEPT ![audioSourceRef] = AfterStop(@)]
                   ELSE voiceSrc
    /\ audioSourceRef' = 0

\* handlePlayVoice(message), lines 53-67, up to the await of generateSpeech:
\* a click on the Listen / Stop button of a message.
HandlePlayVoice(v, msg) ==
    /\ voicePc[v] = "idle"
    /\ \A u \in Plays : u < v => voicePc[u] # "idle"
    /\ StopAudio
    /\ IF playingId = msg
       THEN /\ playingId' = 0
            /\ voicePc' = [voicePc EXCEPT ![v] = "done"]
            /\ voiceMsg' = voiceMsg
       ELSE /\ playingId' = msg
            /\ voicePc' = [voicePc EXCEPT ![v] = "awaitSpeech"]
            /\ voiceMsg' = [voiceMsg EXCEPT ![v] = msg]
    /\ UNCHANGED <<retryVars, pcmVars, liveVars>>

\* generateSpeech and decodeAudioData have settled with a buffer, lines 68-76:
\* the source is created, stored in the ref and started.
SpeechResolved(v) ==
    /\ voicePc[v] = "awaitSpeech"
    /\ audioSourceRef' = v
    /\ voiceSrc' = [voiceSrc EXCEPT ![v] = "playing"]
    /\ voicePc' = [voicePc EXCEPT ![v] = "done"]
    /\ UNCHANGED <<voiceMsg, playingId>>
    /\ UNCHANGED <<retryVars, pcmVars, liveVars>>

\* generateSpeech or decodeAudioData rejects: the catch block, lines 77-80.
SpeechFailed(v) ==
    /\ voicePc[v] = "awaitSpeech"
    /\ playingId' = 0
    /\ voicePc' = [voicePc EXCEPT ![v] = "failed"]
    /\ UNCHANGED <<voiceMsg, audioSourceRef, voiceSrc>>
    /\ UNCHANGED <<retryVars, pcmVars, liveVars>>

\* source.onended, line 73: the buffer has played to its end, or the source
\* was stopped.
VoiceEnded(v) ==
    /\ voiceSrc[v] \in {"playing", "stopped"}
    /\ voiceSrc' = [voiceSrc EXCEPT ![v] = "ended"]
    /\ playingId' = 0
    /\ UNCHANGED <<voicePc, voiceMsg, audioSourceRef>>
    /\ UNCHANGED <<retryVars, pcmVars, liveVars>>

-----------------------------------------------------------------------------
(* Initial states and specifications *)

InitVoiceVars ==
    /\ voicePc = [v \in Plays |-> "idle"]
    /\ voiceMsg = [v \in Plays |-> 0]
    /\ playingId = 0
    /\ audioSourceRef = 0
    /\ voiceSrc = [v \in Plays |-> "none"]

InitRetryVars ==
    /\ rpc = [c \in Calls |-> "idle"]
    /\ kind = [c \in Calls |-> "plain"]
    /\ maxRetries = [c \in Calls |-> DefaultMaxRetries]
    /\ ri = [c \in Calls |-> 0]
    /\ lastError = [c \in Calls |-> Undef]
    /\ timer = [c \in Calls |-> 0]
    /\ outcome = [c \in Calls |-> NoOutcome]
    /\ shown = [c \in Calls |-> "none"]
    /\ invoked = [c \in Calls |-> 0]
    /\ inflight = [c \in Calls |-> 0]
    /\ delays = [c \in Calls |-> <<>>]
    /\ elapsed = [c \in Calls |-> 0]
    /\ lastThrown = [c \in Calls |-> NoOutcome]
    /\ firstQuota = [c \in Calls |-> "none"]
    /\ everyQuota = [c \in Calls |-> TRUE]

InitPcmIdle ==
    /\ ppc = "off"
    /\ samples = <<>>
    /\ blob = <<>>
    /\ bytes = <<>>
    /\ decoded = <<>>
    /\ channels = 1
    /\ audioBuffer = NoOutcome

InitLiveVars ==
    /\ lpc = [k \in Starts |-> "idle"]
    /\ stream = [k \in Starts |-> "none"]
    /\ channel = [k \in Starts |-> "none"]
    /\ liveSessionRef = 0
    /\ liveStreamRef = 0
    /\ isLiveMode = FALSE
    /\ showMicHelp = FALSE
    /\ liveError = "none"
    /\ capture = [k \in Starts |-> FALSE]
    /\ decoding = NoDecode
    /\ liveSources = {}
    /\ srcState = [x \in Sources |-> "none"]
    /\ srcOwner = [x \in Sources |-> 0]
    /\ srcStart = [x \in Sources |-> 0]
    /\ srcDur = [x \in Sources |-> 0]
    /\ liveNextStartTimeRef = 0
    /\ now = 0
    /\ ctxBase = [k \in Starts |-> 0]
    /\ priorSession = [k \in Starts |-> 0]
    /\ priorStream = [k \in Starts |-> 0]
    /\ priorSources = [k \in Starts |-> {}]
    /\ priorClosed = [k \in Starts |-> FALSE]
    /\ srcClock = [x \in Sources |-> 0]
    /\ srcFirst = [x \in Sources |-> "no"]
    /\ resetSince = FALSE
    /\ lateFrame = [k \in Starts |-> FALSE]
    /\ stopRan = [k \in Starts |-> FALSE]
    /\ stopsInRow = 0
    /\ stopRaised = FALSE
    /\ closedSince = TRUE
    /\ lastEvent = "other"
    /\ caught = NoError
    /\ curIn = [k \in Starts |-> ""]
    /\ curOut = [k \in Starts |-> ""]
    /\ liveTranscription = <<>>
    /\ updaters = <<>>
    /\ turns = <<>>

vars == <<retryVars, pcmVars, liveVars, voiceVars>>

InitRetry == InitRetryVars /\ InitPcmIdle /\ InitLiveVars /\ InitVoiceVars

NextRetry ==
    \/ \E c \in Calls, k \in Kinds, m \in MinMaxRetries..MaxMaxRetries : Call(c, k, m)
    \/ \E c \in Calls, o \in RemoteOutcomes : Settle(c, o)
    \/ Tick
    \/ \E c \in Calls : Wake(c)
    \/ \E c \in Calls : Present(c)

SpecRetry == InitRetry /\ [][NextRetry]_vars

InitPcm ==
    /\ InitRetryVars
    /\ InitLiveVars
    /\ InitVoiceVars
    /\ ppc = "input"
    /\ samples \in SeqsUpTo(SampleValues, MaxSamples) \ {<<>>}
    /\ blob = <<>>
    /\ bytes = <<>>
    /\ decoded = <<>>
    /\ channels = 1
    /\ audioBuffer = NoOutcome

NextPcm ==
    \/ PcmEncode
    \/ PcmTransport
    \/ PcmDecode

SpecPcm == InitPcm /\ [][NextPcm]_vars

\* decodeAudioData applied to every byte sequence up to MaxBytes bytes, with
\* every channel count up to MaxChannels.
InitDecode ==
    /\ InitRetryVars
    /\ InitLiveVars
    /\ InitVoiceVars
    /\ ppc = "raw"
    /\ samples = <<>>
    /\ blob = <<>>
    /\ bytes \in SeqsUpTo(ByteValues, MaxBytes)
    /\ decoded = <<>>
    /\ channels \in 1..MaxChannels
    /\ audioBuffer = NoOutcome

NextDecode == DecodeRaw

SpecDecode == InitDecode /\ [][NextDecode]_vars

InitLive == InitRetryVars /\ InitPcmIdle /\ InitLiveVars /\ InitVoiceVars

NextLive ==
    \/ \E k \in Starts : ClickStart(k)
    \/ \E k \in Starts : HandleMicHelpRetry(k)
    \/ DismissMicHelp
    \/ \E k \in Starts : MicGranted(k)
    \/ \E k \in Starts, e \in MicErrors : MicDenied(k, e)
    \/ \E k \in Starts : AudioResumed(k)
    \/ \E k \in Starts : OnOpen(k)
    \/ \E k \in Starts : AudioProcess(k)
    \/ \E k \in Starts : ConnectResolved(k)
    \/ \E k \in Starts, e \in ConnectErrors : ConnectRejected(k, e)
    \/ \E k \in Starts, m \in RemoteAudio(MaxBuffers) : OnMessage(k, m, TRUE)
    \/ OnDecoded
    \/ \E x \in Sources : SourceEnded(x)
    \/ \E throws \in BOOLEAN : ClickStop(throws)
    \/ \E k \in Starts, throws \in BOOLEAN : OnClose(k, throws)
    \/ \E k \in Starts, throws \in BOOLEAN : OnError(k, throws)

SpecLive == InitLive /\ [][NextLive]_vars

\* One invocation of startLiveMentor followed from the click to the teardown,
\* with the output clock running and buffers of every duration.
TheSession == 1

NextSession ==
    \/ ClickStart(TheSession)
    \/ DismissMicHelp
    \/ MicGranted(TheSession)
    \/ \E e \in MicErrors : MicDenied(TheSession, e)
    \/ AudioResumed(TheSession)
    \/ OnOpen(TheSession)
    \/ AudioProcess(TheSession)
    \/ ConnectResolved(TheSession)
    \/ \E e \in ConnectErrors : ConnectRejected(TheSession, e)
    \/ \E m \in RemoteAudio(MaxBuffers) : OnMessage(TheSession, m, TRUE)
    \/ OnDecoded
    \/ \E x \in Sources : SourceEnded(x)
    \/ ClockTick
    \/ \E throws \in BOOLEAN : ClickStop(throws)
    \/ \E throws \in BOOLEAN : OnClose(TheSession, throws)
    \/ \E throws \in BOOLEAN : OnError(TheSession, throws)

SpecSession == InitLive /\ [][NextSession]_vars

\* The transcription of one live session: the messages carry fragments and
\* turn boundaries, and React renders when it chooses to.
NextTranscript ==
    \/ ClickStart(TheSession)
    \/ MicGranted(TheSession)
    \/ AudioResumed(TheSession)
    \/ OnOpen(TheSession)
    \/ ConnectResolved(TheSession)
    \/ \E m \in TextMessages, eager \in BOOLEAN : OnMessage(TheSession, m, eager)
    \/ Render

SpecTranscript == InitLive /\ [][NextTranscript]_vars

\* The playback of one live session that stays open: audio messages, the
\* decode step, sources ending, interruptions and the output clock.
NextPlayback ==
    \/ ClickStart(TheSession)
    \/ MicGranted(TheSession)
    \/ AudioResumed(TheSession)
    \/ OnOpen(TheSession)
    \/ ConnectResolved(TheSession)
    \/ \E m \in RemoteAudio(MaxSources) : OnMessage(TheSession, m, TRUE)
    \/ OnDecoded
    \/ \E x \in Sources : SourceEnded(x)
    \/ ClockTick

SpecPlayback == InitLive /\ [][NextPlayback]_vars

\* Starting the live mentor, over and over: the clicks, the microphone help,
\* the outcomes of getUserMedia and of the connect, and stops between them.
NextMic ==
    \/ \E k \in Starts : ClickStart(k)
    \/ \E k \in Starts : HandleMicHelpRetry(k)
    \/ DismissMicHelp
    \/ \E k \in Starts : MicGranted(k)
    \/ \E k \in Starts, e \in MicErrors : MicDenied(k, e)
    \/ \E k \in Starts : AudioResumed(k)
    \/ \E k \in Starts : OnOpen(k)
    \/ \E k \in Starts : ConnectResolved(k)
    \/ \E k \in Starts, e \in ConnectErrors : ConnectRejected(k, e)
    \/ \E throws \in BOOLEAN : ClickStop(throws)

SpecMic == InitLive /\ [][NextMic]_vars

\* The Listen / Stop buttons of the chat messages, clicked in any order while
\* speech requests are pending and sources play.
InitVoice == InitRetryVars /\ InitPcmIdle /\ InitLiveVars /\ InitVoiceVars

NextVoice ==
    \/ \E v \in Plays, msg \in Messages : HandlePlayVoice(v, msg)
    \/ \E v \in Plays : SpeechResolved(v)
    \/ \E v \in Plays : SpeechFailed(v)
    \/ \E v \in Plays : VoiceEnded(v)

SpecVoice == InitVoice /\ [][NextVoice]_vars

-----------------------------------------------------------------------------
(* Properties of withRetry and its callers, checked under SpecRetry *)

RECURSIVE SumSeq(_)
SumSeq(q) == IF q = <<>> THEN 0 ELSE Head(q) + SumSeq(Tail(q))

Finished(c) == rpc[c] \in {"returned", "raised", "shown"}
Failed(c) == Finished(c) /\ outcome[c].threw
Succeeded(r) == "threw" \in DOMAIN r /\ ~r.threw

\* C1: a call withRetry(op, 3) whose every invocation failed with a
\* quota-classified error has, once it is over, invoked op exactly 3 times, set
\* a timer of 1000 ms and then one of 2000 ms and no other, waited 3000 ms in
\* all, and thrown the error of the last invocation.
RetryCeiling ==
    \A c \in Calls :
        (Finished(c) /\ maxRetries[c] = 3 /\ everyQuota[c]) =>
            /\ invoked[c] = 3
            /\ delays[c] = <<1000, 2000>>
            /\ elapsed[c] = 3000
            /\ timer[c] = 0
            /\ outcome[c] = Threw(lastThrown[c].val)

RetryCeilingWitness ==
    \E c \in Calls :
        /\ rpc[c] = "raised" /\ maxRetries[c] = 3 /\ everyQuota[c]
        /\ invoked[c] = 3 /\ elapsed[c] = 3000

\* C2: when the first invocation fails with an error that is not
\* quota-classified, the call makes no second invocation, sets no timer and is
\* over at once, throwing that error; for every maxRetries >= 1.
NonRetryShortCircuit ==
    \A c \in Calls :
        (firstQuota[c] = "no" /\ maxRetries[c] >= 1) =>
            /\ invoked[c] = 1
            /\ delays[c] = <<>>
            /\ timer[c] = 0 /\ elapsed[c] = 0
            /\ Failed(c)
            /\ outcome[c] = Threw(lastThrown[c].val)

NonRetryShortCircuitWitness ==
    \E c \in Calls :
        /\ firstQuota[c] = "no" /\ rpc[c] = "raised"
        /\ maxRetries[c] = 2 /\ outcome[c] = Threw(E_500)

\* The classification the claim C3 states: status code 429, or the
\* resource-exhaustion marker in the message.
ClaimedRetryable(err) ==
    \/ PropStatus(err) = Num(429)
    \/ Includes(MessageOf(err).str, "RESOURCE_EXHAUSTED")

\* The classification by cases: the first truthy one of err.status,
\* err.error.status and err.error.code decides by being 429 or the marker; when
\* none is truthy, a message containing "429" decides; and the marker in the
\* message (or in a thrown string) always does.
Decisive(v) == v = Num(429) \/ v = Str("RESOURCE_EXHAUSTED")
AmendedRetryable(err) ==
    \/ Truthy(PropStatus(err)) /\ Decisive(PropStatus(err))
    \/ /\ ~Truthy(PropStatus(err))
       /\ Truthy(PropErrorStatus(err)) /\ Decisive(PropErrorStatus(err))
    \/ /\ ~Truthy(PropStatus(err)) /\ ~Truthy(PropErrorStatus(err))
       /\ Truthy(PropErrorCode(err)) /\ Decisive(PropErrorCode(err))
    \/ /\ ~Truthy(PropStatus(err)) /\ ~Truthy(PropErrorStatus(err))
       /\ ~Truthy(PropErrorCode(err))
       /\ IsStr(PropMessage(err)) /\ Includes(PropMessage(err).str, "429")
    \/ IsStr(PropMessage(err)) /\ Includes(PropMessage(err).str, "RESOURCE_EXHAUSTED")
    \/ err.typeof = "string" /\ Includes(err.text, "RESOURCE_EXHAUSTED")

\* A call is waiting to retry exactly when the error it just caught was taken
\* as retryable; it gave up before its last attempt exactly when it was not.
RetriedIff(P(_)) ==
    \A c \in Calls :
        /\ rpc[c] = "backoff" => P(lastError[c])
        /\ (Failed(c) /\ invoked[c] >= 1 /\ ri[c] < maxRetries[c] - 1) => ~P(lastError[c])

\* C3 (as claimed): withRetry retries an error if and only if its status code
\* equals 429 or its message contains RESOURCE_EXHAUSTED; a message that merely
\* contains the digits 429 is not retried.
ClassificationAsClaimed == RetriedIff(ClaimedRetryable)

\* C3 (amended): withRetry retries an error if and only if the first truthy
\* value among err.status, err.error.status, err.error.code and (429 when
\* err.message contains "429") is 429 or "RESOURCE_EXHAUSTED", or the message
\* (err.message, or the error itself when it is a string) contains
\* RESOURCE_EXHAUSTED.
ClassificationAmended == RetriedIff(AmendedRetryable)

ClassificationWitness ==
    \E c \in Calls, d \in Calls :
        /\ rpc[c] = "backoff" /\ lastError[c] = E_msg429
        /\ rpc[d] = "raised" /\ lastError[d] = E_500code429 /\ invoked[d] = 1
        /\ maxRetries[d] = 3

\* C4: whenever an invocation succeeds the call is over with that invocation's
\* value and nothing more is invoked; a call that is over with an error, after
\* at least one invocation, throws exactly what its last invocation threw.
FirstSuccessOrLastError ==
    \A c \in Calls :
        /\ Succeeded(lastThrown[c]) =>
              /\ rpc[c] \in {"returned", "shown"}
              /\ outcome[c] = lastThrown[c]
              /\ inflight[c] = 0
        /\ (Failed(c) /\ invoked[c] >= 1) =>
              /\ outcome[c] = lastThrown[c]
              /\ inflight[c] = 0
        /\ (rpc[c] \in {"attempt", "backoff"}) => outcome[c] = NoOutcome

FirstSuccessOrLastErrorWitness ==
    \E c \in Calls, d \in Calls :
        /\ rpc[c] = "returned" /\ invoked[c] = 2 /\ outcome[c] = Returned(Str("good"))
        /\ rpc[d] = "raised" /\ invoked[d] = 2 /\ outcome[d] = Threw(E_net)

\* C5: a call never has two invocations in flight; an invocation is in flight
\* only when every timer the call has set has run out in full; and a step of
\* one call leaves the loop counter and the timer of every other call alone.
SequentialAttempts ==
    /\ [](\A c \in Calls :
            /\ inflight[c] = (IF rpc[c] = "attempt" THEN 1 ELSE 0)
            /\ rpc[c] = "attempt" =>
                  /\ timer[c] = 0
                  /\ elapsed[c] = SumSeq(delays[c])
                  /\ invoked[c] = ri[c] + 1
                  /\ Len(delays[c]) = ri[c])
    /\ [][\A c \in Calls, d \in Calls :
            (c # d /\ rpc'[c] # rpc[c]) =>
                /\ ri'[d] = ri[d]
                /\ timer'[d] = timer[d]
                /\ delays'[d] = delays[d]]_vars

SequentialAttemptsWitness ==
    \E c \in Calls, d \in Calls :
        /\ c # d
        /\ rpc[c] = "attempt" /\ ri[c] = 2
        /\ rpc[d] = "backoff" /\ ri[d] = 0 /\ timer[d] > 0

\* C7: in analyzeMathProblem a response that does not parse ends the call with
\* the malformed-response error and is never retried, so when the first response
\* does not parse exactly one request was made; and when every request fails
\* with status 429 the call is over after exactly 3 requests.
AnalyzeParseFailureNotRetried ==
    \A c \in Calls :
        kind[c] = "analyze" =>
            /\ lastThrown[c] = Threw(E_malformed) =>
                  /\ Failed(c) /\ outcome[c] = Threw(E_malformed)
                  /\ timer[c] = 0
                  /\ invoked[c] = Len(delays[c]) + 1
                  /\ firstQuota[c] = "no" => invoked[c] = 1
            /\ (Finished(c) /\ everyQuota[c] /\ lastError[c] = E_429) =>
                  /\ invoked[c] = 3 /\ outcome[c] = Threw(E_429)

AnalyzeParseFailureWitness ==
    \E c \in Calls, d \in Calls :
        /\ kind[c] = "analyze" /\ outcome[c] = Threw(E_malformed) /\ invoked[c] = 1
        /\ kind[d] = "analyze" /\ outcome[d] = Threw(E_429) /\ invoked[d] = 3
        /\ everyQuota[d]

\* C23: in generateSpeech a response without an audio payload ends the call
\* with the voice-unavailable error and is never retried: no timer is set after
\* it, and when the first response has no audio exactly one request was made.
SpeechUnavailableNotRetried ==
    \A c \in Calls :
        (kind[c] = "speech" /\ lastThrown[c] = Threw(E_voice)) =>
            /\ Failed(c) /\ outcome[c] = Threw(E_voice)
            /\ timer[c] = 0
            /\ invoked[c] = Len(delays[c]) + 1
            /\ firstQuota[c] = "no" => (invoked[c] = 1 /\ delays[c] = <<>>)

SpeechUnavailableWitness ==
    \E c \in Calls, d \in Calls :
        /\ kind[c] = "speech" /\ outcome[c] = Threw(E_voice) /\ invoked[c] = 1
        /\ rpc[c] = "shown" /\ shown[c] = "generic"
        /\ kind[d] = "speech" /\ outcome[d] = Threw(E_voice) /\ invoked[d] = 2
        /\ delays[d] = <<1000>> /\ firstQuota[d] = "yes"

\* C8: every handler shows the service-busy message for a failure that is
\* quota-classified and the generic message for every other failure.
QuotaShownDistinctly ==
    \A c \in Calls :
        (rpc[c] = "shown" /\ outcome[c].threw) =>
            (shown[c] = "quota" <=> IsQuotaError(outcome[c].val))

\* C28: for every error a call made by handleSend ends with, handleSend
\* shows the quota message if and only if withRetry classifies that error as
\* retryable.
SendPredicateAgrees ==
    \A c \in Calls :
        (kind[c] = "chat" /\ rpc[c] = "shown" /\ outcome[c].threw) =>
            (shown[c] = "quota" <=> IsQuotaError(lastError[c]))

\* C30: for every maxRetries, 0 and negative values included, a call that is
\* over has invoked the operation at least once and at most max(1, maxRetries)
\* times, and what it throws is what an invocation of the operation threw.
InvocationBounds ==
    \A c \in Calls :
        /\ invoked[c] <= (IF maxRetries[c] > 1 THEN maxRetries[c] ELSE 1)
        /\ Finished(c) =>
              /\ invoked[c] >= 1
              /\ outcome[c].threw =>
                    (lastThrown[c] # NoOutcome /\ outcome[c] = lastThrown[c])

-----------------------------------------------------------------------------
(* Properties of the PCM codec, checked under SpecPcm *)

\* C6: for every non-empty sequence of samples in [-1, 1], endpoints included,
\* the buffer decoded from the encoded blob has the same length and every
\* sample of it differs from the input sample by at most 1/32768.
PcmRoundTrip ==
    ppc = "decoded" =>
        /\ Len(decoded) = Len(samples)
        /\ \A k \in 1..Len(samples) :
              /\ decoded[k] * SampleDen <= samples[k] * PcmScale + SampleDen
              /\ decoded[k] * SampleDen >= samples[k] * PcmScale - SampleDen

\* The number of complete frames in a byte sequence: complete 16-bit samples
\* divided by the channel count, an incomplete frame not counted.
CompleteFrames(data, n) == (Len(data) \div 2) \div n

\* C22: decodeAudioData settles without an error for a byte sequence of any
\* length and any channel count >= 1, with a buffer of that many channels whose
\* length is the number of complete frames, sample i of channel ch being sample
\* (i - 1) * channels + ch of the data; trailing bytes and samples are dropped.
DecodeAcceptsAnyLength ==
    ppc = "settled" =>
        /\ ~audioBuffer.threw
        /\ Len(audioBuffer.val) = channels
        /\ \A ch \in 1..channels :
              /\ Len(audioBuffer.val[ch]) = CompleteFrames(bytes, channels)
              /\ \A i \in 1..CompleteFrames(bytes, channels) :
                    audioBuffer.val[ch][i] = Int16At(bytes, (i - 1) * channels + ch)

-----------------------------------------------------------------------------
(* Properties of the live mentor session, checked under SpecLive *)

\* C9: once an invocation of startLiveMentor that began while a prior session
\* existed has acquired its microphone, the stream that was referenced has been
\* stopped, the channel that was referenced is closing or closed, and no source
\* that was scheduled is still playing or in the active set.
PriorSessionTornDown ==
    \A k \in Starts :
        lpc[k] \in {"awaitResume", "awaitSession", "done"} =>
            /\ priorStream[k] # 0 => stream[priorStream[k]] = "stopped"
            /\ priorSession[k] # 0 => channel[priorSession[k]] \in {"closing", "closed"}
            /\ \A x \in priorSources[k] : srcState[x] # "playing" /\ x \notin liveSources

\* C10: at most one microphone stream is live at any time, and a live stream is
\* the one liveStreamRef refers to.
OneLiveMicrophone ==
    /\ Cardinality({k \in Starts : stream[k] = "live"}) <= 1
    /\ \A k \in Starts : stream[k] = "live" => liveStreamRef = k

\* C11: once stopLiveMentor has returned for a session, the onaudioprocess
\* callback that the session's onopen installed never again calls
\* sendRealtimeInput.
CaptureStopsWithSession ==
    \A k \in Starts : ~lateFrame[k]

\* C13: when stopLiveMentor has run for a session (after its microphone was
\* acquired), then once the connect promise of that session has resolved its
\* channel is not open and stored in liveSessionRef: the stop closed it.
StopWhileConnectingClosesChannel ==
    \A k \in Starts :
        (stopRan[k] /\ lpc[k] = "done") =>
            ~(liveSessionRef = k /\ channel[k] = "open")

\* C15: when the catch block of startLiveMentor has run, live mode is off and
\* the microphone stream of an invocation that failed is not live and not
\* referenced any more.
FailedStartReleasesMicrophone ==
    lastEvent = "catch" =>
        /\ ~isLiveMode
        /\ \A k \in Starts :
              lpc[k] = "failed" => (stream[k] # "live" /\ liveStreamRef # k)

\* C16: whenever startLiveMentor was not called since stopLiveMentor last
\* completed, the set of active playback sources is empty.
ClosedSessionHasNoPlayback ==
    closedSince => liveSources = {}

\* The source scheduled just before x by the same session, and nothing reset
\* between the two.
Precedes(y, x) ==
    /\ y < x
    /\ srcOwner[y] = srcOwner[x]
    /\ \A z \in Sources : (y < z /\ z < x) => srcOwner[z] # srcOwner[x]
    /\ srcFirst[x] = "no"

\* C18: the first buffer a session schedules starts at the reading t0 of its
\* output clock, and every later one, scheduled before the clock has passed the
\* end of the audio already scheduled, starts exactly where the one before it
\* ends: t0, t0 + d1, t0 + d1 + d2.
GaplessPlayback ==
    \A x \in Sources :
        srcState[x] # "none" =>
            /\ srcFirst[x] = "session" => srcStart[x] = srcClock[x]
            /\ \A y \in Sources :
                  (Precedes(y, x) /\ srcClock[x] <= srcStart[y] + srcDur[y]) =>
                      srcStart[x] = srcStart[y] + srcDur[y]

\* C19: the first buffer scheduled by the newest session, when that session
\* was started with every earlier one stopped, starts at the reading of the new
\* session's output clock, not at a value an earlier session left in
\* nextStartTime.
TimelinePerSession ==
    \A x \in Sources :
        (/\ srcFirst[x] = "session"
         /\ priorClosed[srcOwner[x]]
         /\ \A j \in Starts : j > srcOwner[x] => lpc[j] = "idle") =>
            srcStart[x] = srcClock[x]

\* The session the component is running: the invocation of startLiveMentor
\* that acquired its microphone last (0: none has).
Acquired(k) == lpc[k] \in {"awaitResume", "awaitSession", "done"}
CurrentSession ==
    IF \A k \in Starts : ~Acquired(k) THEN 0
    ELSE CHOOSE k \in Starts : Acquired(k) /\ \A j \in Starts : j > k => ~Acquired(j)

\* The sources that have been started and have neither ended nor been stopped.
Playing == {x \in Sources : srcState[x] = "playing"}

\* C26: the active set holds exactly the sources that were started by the
\* current session and have neither ended nor been stopped; stated for a
\* session that was started after stopLiveMentor had completed (or first).
ActiveSetOfCurrentSession ==
    /\ liveSources = Playing
    /\ \A x \in liveSources :
          priorClosed[CurrentSession] => srcOwner[x] = CurrentSession

\* C27: when the onclose callback of a session that stopLiveMentor has
\* closed is delivered after a later session has acquired its microphone, the
\* step leaves the later session's stream, channel and sources, both refs and
\* live mode as they were.
StaleCloseLeavesNewSession ==
    [][\A a \in Starts, b \in Starts :
         (/\ a < b
          /\ stopRan[a] /\ channel[a] = "closing" /\ channel'[a] = "closed"
          /\ priorClosed[b] /\ Acquired(b)) =>
             /\ stream'[b] = stream[b]
             /\ channel'[b] = channel[b]
             /\ \A x \in Sources : srcOwner[x] = b => srcState'[x] = srcState[x]
             /\ liveSessionRef' = liveSessionRef
             /\ liveStreamRef' = liveStreamRef
             /\ isLiveMode' = isLiveMode]_vars

-----------------------------------------------------------------------------
(* Properties of one live session, checked under SpecSession *)

\* C12: no call of stopLiveMentor throws, not even when close() throws, and
\* after every call of a run of successive calls (the first, the second)
\* the session is closed: no session handle, no microphone stream reference,
\* an empty playback set and live mode off.
TeardownIdempotent ==
    /\ ~stopRaised
    /\ stopsInRow >= 1 =>
          /\ liveSessionRef = 0
          /\ liveStreamRef = 0
          /\ liveSources = {}
          /\ ~isLiveMode

TeardownIdempotentWitness ==
    /\ stopsInRow = 2
    /\ lpc[TheSession] = "done" /\ channel[TheSession] = "open"
    /\ stream[TheSession] = "stopped"
    /\ \E x \in Sources : srcState[x] = "stopped"

\* C14: after an onclose or an onerror callback has run, the session handle
\* and the stream reference are cleared, the playback set is empty and live mode
\* is off; and the callback's step stops the stream that was referenced and
\* every source that was in the set, as stopLiveMentor does.
RemoteCloseTearsDown ==
    /\ [](lastEvent \in {"onclose", "onerror"} =>
            /\ liveSessionRef = 0
            /\ liveStreamRef = 0
            /\ liveSources = {}
            /\ ~isLiveMode)
    /\ [][lastEvent' \in {"onclose", "onerror"} =>
            /\ liveStreamRef # 0 => stream'[liveStreamRef] = "stopped"
            /\ \A x \in liveSources : srcState'[x] = "stopped"]_vars

RemoteCloseTearsDownWitness ==
    /\ lastEvent = "onerror" /\ stopsInRow = 1
    /\ liveError = "mentor"
    /\ channel[TheSession] = "closing"
    /\ stream[TheSession] = "stopped"
    /\ \E x \in Sources : srcState[x] = "stopped" /\ srcOwner[x] = TheSession

\* C17: when an interruption has been handled no source is playing, the
\* active set is empty and the timeline is reset; the first buffer scheduled
\* after it starts at the output clock's time of that moment, not at the end of
\* the audio that was cut; and a handler suspended at the decode step is resumed
\* before anything else runs, so a buffer received before an interruption is
\* never started after it.
InterruptionResets ==
    /\ [](lastEvent = "interrupted" =>
            /\ liveSources = {}
            /\ \A x \in Sources : srcState[x] # "playing"
            /\ liveNextStartTimeRef = 0)
    /\ [](\A x \in Sources : srcFirst[x] = "reset" => srcStart[x] = srcClock[x])
    /\ [][decoding # NoDecode =>
            (decoding' = NoDecode /\ srcState'[NextSource] # "none")]_vars

InterruptionResetsWitness ==
    \E x \in Sources, y \in Sources :
        /\ y < x
        /\ srcState[y] = "stopped"
        /\ srcStart[y] + srcDur[y] > srcClock[x]
        /\ srcFirst[x] = "reset" /\ srcState[x] = "playing"
        /\ srcStart[x] = srcClock[x]

-----------------------------------------------------------------------------
(* Properties of starting the live mentor, checked under SpecMic *)

\* getUserMedia of invocation k rejects in this step.
MicFails(k) == lpc[k] = "awaitMic" /\ lpc'[k] = "failed"

\* C24: the step in which getUserMedia rejects shows the microphone help, and
\* no error message, for a permission-denied failure, and the hardware error
\* message, and no help, for a device-unavailable failure; it begins no
\* invocation of startLiveMentor and leaves no invocation waiting that was not
\* waiting before; and after it live mode is off.  While the help is shown a
\* new invocation begins only by hiding it (the try-again button).
MicFailureSurfaced ==
    /\ [][\A k \in Starts :
            MicFails(k) =>
                /\ caught' \in MicErrors
                /\ IF caught'.name = "NotAllowedError"
                   THEN showMicHelp' /\ liveError' = liveError
                   ELSE liveError' = "microphone" /\ showMicHelp' = showMicHelp
                /\ ~isLiveMode'
                /\ \A j \in Starts : j # k => lpc'[j] = lpc[j]]_vars
    /\ [](lastEvent = "catch" => ~isLiveMode)
    /\ [][\A j \in Starts :
            (showMicHelp /\ lpc[j] = "idle" /\ lpc'[j] # "idle") => ~showMicHelp']_vars

MicFailureSurfacedWitness ==
    /\ lpc[1] = "failed" /\ channel[1] = "none"
    /\ lpc[2] = "failed" /\ channel[2] = "none"
    /\ caught.name = "NotFoundError"
    /\ liveError = "microphone" /\ ~showMicHelp /\ ~isLiveMode



\* Source y was scheduled before source x by the same session.
Earlier(y, x) ==
    /\ y < x
    /\ srcState[x] # "none"
    /\ srcOwner[y] = srcOwner[x]

\* No interruption was handled between the scheduling of y and that of x.
NoResetBetween(y, x) ==
    \A z \in Sources : (y < z /\ z <= x) => srcFirst[z] # "reset"

\* A message with audio is taken up only when no handler is suspended at the
\* decode step, and the step after it schedules the buffer of that message.
DecodeKeepsOrder ==
    [][/\ decoding' # NoDecode => decoding = NoDecode
       /\ decoding # NoDecode =>
             /\ decoding' = NoDecode
             /\ srcState[NextSource] = "none" /\ srcState'[NextSource] # "none"
             /\ srcDur'[NextSource] = decoding.dur
             /\ srcOwner'[NextSource] = decoding.k]_vars

\* C21 (as claimed): buffers are scheduled in the order their messages were
\* received, and of any two buffers of a session the one received first starts
\* no later than the other and ends before the other begins.
InboundOrderAsClaimed ==
    /\ DecodeKeepsOrder
    /\ [](\A x \in Sources, y \in Sources :
            Earlier(y, x) =>
                /\ srcStart[y] <= srcStart[x]
                /\ srcStart[y] + srcDur[y] <= srcStart[x])

\* C21 (amended): buffers are scheduled in the order their messages were
\* received, and of any two buffers of a session with no interruption handled
\* between them the one received first starts no later than the other and ends
\* before the other begins; an interruption restarts the timeline, so a buffer
\* received after it may start before the start time given to one it cut off.
InboundOrderAmended ==
    /\ DecodeKeepsOrder
    /\ [](\A x \in Sources, y \in Sources :
            (Earlier(y, x) /\ NoResetBetween(y, x)) =>
                /\ srcStart[y] <= srcStart[x]
                /\ srcStart[y] + srcDur[y] <= srcStart[x])

InboundOrderWitness ==
    /\ srcState[1] = "ended" /\ srcState[2] = "stopped" /\ srcState[3] = "playing"
    /\ srcStart[2] = srcStart[1] + srcDur[1]
    /\ srcFirst[2] = "no" /\ srcFirst[3] = "reset"
    /\ srcStart[3] < srcStart[2]

\* C25: liveNextStartTimeRef decreases only in a step that handles an
\* interruption; a step that schedules a buffer and handles no interruption
\* leaves it at that buffer's start time plus its duration; and of two buffers
\* scheduled one after the other with no interruption between them the later
\* starts no earlier than the start time of the earlier plus its duration.
NonOverlap ==
    /\ [][/\ liveNextStartTimeRef' < liveNextStartTimeRef => lastEvent' = "interrupted"
          /\ (decoding # NoDecode /\ lastEvent' # "interrupted") =>
                /\ liveNextStartTimeRef' =
                      srcStart'[NextSource] + srcDur'[NextSource]
                /\ liveNextStartTimeRef' > liveNextStartTimeRef]_vars
    /\ [](\A x \in Sources, y \in Sources :
            (srcState[x] # "none" /\ Precedes(y, x)) =>
                srcStart[x] >= srcStart[y] + srcDur[y])

NonOverlapWitness ==
    /\ Precedes(1, 2) /\ srcState[2] = "stopped"
    /\ srcStart[2] = srcStart[1] + srcDur[1]
    /\ srcFirst[3] = "reset" /\ srcState[3] = "playing"
    /\ liveNextStartTimeRef = srcStart[3] + srcDur[3]
    /\ liveNextStartTimeRef < srcStart[2] + srcDur[2]

-----------------------------------------------------------------------------
(* Properties of the single-shot speech of ChatInteraction, checked under *)
(* SpecVoice                                                              *)

\* C29: at most one speech source is playing, and a source that is playing
\* is the one audioSourceRef holds.
OneVoicePlaying ==
    /\ Cardinality({v \in Plays : voiceSrc[v] = "playing"}) <= 1
    /\ \A v \in Plays : voiceSrc[v] = "playing" => audioSourceRef = v

-----------------------------------------------------------------------------
(* Properties of the live transcription, checked under SpecTranscript *)

\* C20: the transcript holds one pair per turn boundary and no other; once
\* React has applied what was queued, pair i is the concatenation, in arrival
\* order, of the student-side and of the mentor-side fragments received between
\* boundary i - 1 and boundary i, those of the boundary message included; and
\* both buffers are empty after a boundary.
TranscriptFinalised ==
    /\ [](Len(liveTranscription) + Len(updaters) = Len(turns))
    /\ [](updaters = <<>> => liveTranscription = turns)
    /\ [][Len(turns') > Len(turns) =>
            (curIn'[TheSession] = "" /\ curOut'[TheSession] = "")]_vars

====
